---- MODULE Spec2Model ----
(***************************************************************************)
(* TaskFlow API: the rate limiter (middleware/rateLimiter.js: MemoryStore  *)
(* and createRateLimit), the in-memory task store (utils/taskService.js:   *)
(* TaskStore) and the request pipeline in front of it (validation          *)
(* middleware and the task controller).                                    *)
(*                                                                         *)
(* The host is single-threaded JavaScript: a middleware or a store method  *)
(* that contains no await runs to completion before any other handler      *)
(* starts, so one handler is one action, and "concurrent" requests are     *)
(* requests whose handlers run in an arbitrary order.                      *)
(*                                                                         *)
(* Time is Date.now() in milliseconds, counted from ModelEpoch             *)
(* (2024-01-10T08:00:00.000Z, the oldest timestamp of the sample data) so  *)
(* that every value fits TLC's integers.  The clock never goes back.       *)
(***************************************************************************)
EXTENDS Integers, Sequences, FiniteSets, TLC

VARIABLES
    now,        \* Date.now()
    store,      \* defaultStore.store     : Map key -> {count, resetTime}
    resetTime,  \* defaultStore.resetTime : Map key -> resetTime
    log,        \* the responses of the rate limiter middleware, oldest first
    tasks,      \* taskStore.tasks : Map id -> task, in insertion order
    uuids,      \* the number of ids uuidv4() has handed out
    created,    \* the tasks createTask has returned, oldest first
    deleted,    \* the ids deleteTask has removed
    calls,      \* the number of TaskStore method calls made
    ret,        \* the last TaskStore method call and what it returned
    res,        \* the HTTP response to the last request
    client      \* the call of APIClient.request and how far it has got

rateVars == <<store, resetTime, log>>
taskVars == <<tasks, uuids, created, deleted, calls, ret>>
vars ==
    <<now, store, resetTime, log, tasks, uuids, created, deleted, calls, ret,
      res, client>>

----------------------------------------------------------------------------
(* Bounds of the model *)

MaxChecks == 6      \* rate limiter checks in one behaviour
MaxCreates == 2     \* createTask calls in one behaviour
MaxCalls == 4       \* TaskStore method calls in one behaviour (SpecStore)

----------------------------------------------------------------------------
(* Program constants *)

DefaultResetMs == 900000        \* MemoryStore.get: 15 * 60 * 1000
DefaultWindowMs == 900000       \* createRateLimit: windowMs = 15 * 60 * 1000
DefaultMax == 100               \* createRateLimit: max = 100
EnvRateLimitWindowMs == 1000    \* process.env.RATE_LIMIT_WINDOW_MS
EnvRateLimitMaxRequests == 3    \* process.env.RATE_LIMIT_MAX_REQUESTS
StrictWindowMs == 900000        \* strictRateLimiter: 15 * 60 * 1000
StrictMax == 20                 \* strictRateLimiter: max
GlobalWindowMs == 900000        \* globalRateLimiter: 15 * 60 * 1000
GlobalMax == 1000               \* globalRateLimiter: max
StartTime == 400000000          \* Date.now() when the process starts
DefaultTimeout == 10000         \* APIClient: timeout
DefaultRetries == 3             \* APIClient: retries
DefaultRetryDelay == 1000       \* APIClient: retryDelay

\* The instants at which the model samples the clock: the start, the ends of
\* the configured and of the default window, and the instants right after.
Instants ==
    { StartTime,
      StartTime + EnvRateLimitWindowMs,
      StartTime + EnvRateLimitWindowMs + 1,
      StartTime + DefaultResetMs,
      StartTime + DefaultResetMs + 1,
      StartTime + DefaultResetMs + 1 + EnvRateLimitWindowMs,
      StartTime + DefaultResetMs + 1 + EnvRateLimitWindowMs + 1 }

Ips == {"10.0.0.1"}

Requests == [ip : Ips]

----------------------------------------------------------------------------
(* JavaScript values.  A string is the sequence of its characters, an     *)
(* array a sequence, an object a function on its property names, and the  *)
(* ISO string of a date the record [iso |-> milliseconds].                *)

Null == [null |-> TRUE]
Undefined == [undefined |-> TRUE]

\* { ...a, ...b }
Spread(a, b) ==
    [k \in DOMAIN a \cup DOMAIN b |-> IF k \in DOMAIN b THEN b[k] ELSE a[k]]

\* o[k] || d, for a string property
OrDefault(o, k, d) == IF k \in DOMAIN o /\ o[k] # <<>> THEN o[k] ELSE d

\* new Date(ms).toISOString()
toISOString(ms) == [iso |-> ms]

S_pending == <<"p", "e", "n", "d", "i", "n", "g">>
S_in_progress == <<"i", "n", "-", "p", "r", "o", "g", "r", "e", "s", "s">>
S_completed == <<"c", "o", "m", "p", "l", "e", "t", "e", "d">>
S_cancelled == <<"c", "a", "n", "c", "e", "l", "l", "e", "d">>
S_low == <<"l", "o", "w">>
S_medium == <<"m", "e", "d", "i", "u", "m">>
S_high == <<"h", "i", "g", "h">>
S_urgent == <<"u", "r", "g", "e", "n", "t">>
S_x == <<"x">>

----------------------------------------------------------------------------
(* TaskStore *)

SampleTask1 ==
    [ title |-> <<"S", "e", "t", "u", "p", " ", "P", "r", "o", "j", "e", "c", "t",
        " ", "S", "t", "r", "u", "c", "t", "u", "r", "e">>,
      description |->
        <<"C", "r", "e", "a", "t", "e", " ", "t", "h", "e", " ", "b", "a",
        "s", "i", "c", " ", "f", "o", "l", "d", "e", "r", " ", "s", "t",
        "r", "u", "c", "t", "u", "r", "e", " ", "a", "n", "d", " ", "c",
        "o", "n", "f", "i", "g", "u", "r", "a", "t", "i", "o", "n", " ",
        "f", "i", "l", "e", "s">>,
      status |-> S_completed,
      priority |-> S_high,
      dueDate |-> [iso |-> 439200000],
      tags |-> << <<"s", "e", "t", "u", "p">>,
                  <<"p", "r", "o", "j", "e", "c", "t">> >>,
      assignee |-> <<"D", "e", "v", "e", "l", "o", "p", "e", "r">>,
      createdAt |-> [iso |-> 0],
      updatedAt |-> [iso |-> 196200000] ]

SampleTask2 ==
    [ title |-> <<"I", "m", "p", "l", "e", "m", "e", "n", "t", " ", "U", "s", "e",
        "r", " ", "A", "u", "t", "h", "e", "n", "t", "i", "c", "a", "t",
        "i", "o", "n">>,
      description |->
        <<"A", "d", "d", " ", "J", "W", "T", "-", "b", "a", "s", "e", "d",
        " ", "a", "u", "t", "h", "e", "n", "t", "i", "c", "a", "t", "i",
        "o", "n", " ", "s", "y", "s", "t", "e", "m">>,
      status |-> S_in_progress,
      priority |-> S_high,
      dueDate |-> [iso |-> 896400000],
      tags |-> << <<"a", "u", "t", "h">>,
                  <<"s", "e", "c", "u", "r", "i", "t", "y">> >>,
      assignee |-> <<"B", "a", "c", "k", "e", "n", "d", " ", "D", "e", "v", "e", "l",
        "o", "p", "e", "r">>,
      createdAt |-> [iso |-> 176400000],
      updatedAt |-> [iso |-> 356400000] ]

SampleTask3 ==
    [ title |-> <<"D", "e", "s", "i", "g", "n", " ", "D", "a", "t", "a", "b", "a",
        "s", "e", " ", "S", "c", "h", "e", "m", "a">>,
      description |->
        <<"C", "r", "e", "a", "t", "e", " ", "t", "h", "e", " ", "d", "a",
        "t", "a", "b", "a", "s", "e", " ", "s", "c", "h", "e", "m", "a",
        " ", "f", "o", "r", " ", "t", "h", "e", " ", "a", "p", "p", "l",
        "i", "c", "a", "t", "i", "o", "n">>,
      status |-> S_pending,
      priority |-> S_medium,
      dueDate |-> [iso |-> 1310400000],
      tags |-> << <<"d", "a", "t", "a", "b", "a", "s", "e">>,
                  <<"d", "e", "s", "i", "g", "n">> >>,
      assignee |-> <<"D", "a", "t", "a", "b", "a", "s", "e", " ", "A", "r", "c", "h",
        "i", "t", "e", "c", "t">>,
      createdAt |-> [iso |-> 268200000],
      updatedAt |-> [iso |-> 268200000] ]

SampleTask4 ==
    [ title |-> <<"W", "r", "i", "t", "e", " ", "U", "n", "i", "t", " ", "T", "e",
        "s", "t", "s">>,
      description |->
        <<"C", "r", "e", "a", "t", "e", " ", "c", "o", "m", "p", "r", "e",
        "h", "e", "n", "s", "i", "v", "e", " ", "u", "n", "i", "t", " ",
        "t", "e", "s", "t", "s", " ", "f", "o", "r", " ", "a", "l", "l",
        " ", "m", "o", "d", "u", "l", "e", "s">>,
      status |-> S_pending,
      priority |-> S_medium,
      dueDate |-> [iso |-> 1756800000],
      tags |-> << <<"t", "e", "s", "t", "i", "n", "g">>,
                  <<"q", "u", "a", "l", "i", "t", "y">> >>,
      assignee |-> <<"Q", "A", " ", "E", "n", "g", "i", "n", "e", "e", "r">>,
      createdAt |-> [iso |-> 367200000],
      updatedAt |-> [iso |-> 367200000] ]

sampleTasks == <<SampleTask1, SampleTask2, SampleTask3, SampleTask4>>

DigitChars == <<"1", "2", "3", "4", "5", "6", "7", "8", "9">>

\* the n-th id that uuidv4() hands out; ids are opaque and never repeat
Uuid(n) == <<"u", DigitChars[n]>>

\* uuidv4()
uuidv4 == Uuid(uuids + 1)

\* Map.prototype.has / get / set / delete on a map kept in insertion order
TasksHas(m, id) == \E i \in 1..Len(m) : m[i].key = id

TasksGet(m, id) ==
    IF TasksHas(m, id)
    THEN m[CHOOSE i \in 1..Len(m) : m[i].key = id].val
    ELSE Undefined

TasksSet(m, id, value) ==
    IF TasksHas(m, id)
    THEN [i \in 1..Len(m) |->
            IF m[i].key = id THEN [key |-> id, val |-> value] ELSE m[i]]
    ELSE Append(m, [key |-> id, val |-> value])

TasksDelete(m, id) ==
    LET Keep(e) == e.key # id IN SelectSeq(m, Keep)

\* init(): every sample task is stored under a fresh id, as { ...task, id }
InitialTasks ==
    [i \in 1..Len(sampleTasks) |->
        [key |-> Uuid(i), val |-> Spread(sampleTasks[i], [id |-> Uuid(i)])]]

\* getTaskById(id)
getTaskById(id) ==
    LET task == TasksGet(tasks, id) IN
    IF task = Undefined THEN Null ELSE task

\* createTask(taskData): the new map and the task returned
createTask(taskData) ==
    LET id == uuidv4
        stamp == toISOString(now)
        task == Spread(Spread([id |-> id], taskData),
                       [status |-> OrDefault(taskData, "status", S_pending),
                        priority |-> OrDefault(taskData, "priority", S_medium),
                        createdAt |-> stamp,
                        updatedAt |-> stamp])
    IN  [tasks |-> TasksSet(tasks, id, task), result |-> task]

\* a plausible slip: no not-found test, the update is stored under the id
updateTask_Upsert(id, updateData) ==
    LET found == TasksGet(tasks, id)
        existingTask == IF found = Undefined
                        THEN [createdAt |-> toISOString(now)] ELSE found
        updatedTask == Spread(Spread(existingTask, updateData),
                              [id |-> id,
                               createdAt |-> existingTask.createdAt,
                               updatedAt |-> toISOString(now)])
    IN  [tasks |-> TasksSet(tasks, id, updatedTask), result |-> updatedTask]

\* a plausible slip: the stored task is built from the partial alone
updateTask_Replace(id, updateData) ==
    LET existingTask == TasksGet(tasks, id) IN
    IF existingTask = Undefined
    THEN [tasks |-> tasks, result |-> Null]
    ELSE LET updatedTask == Spread(Spread([title |-> existingTask.title,
                                           status |-> S_pending,
                                           priority |-> S_medium],
                                          updateData),
                                   [id |-> id,
                                    createdAt |-> existingTask.createdAt,
                                    updatedAt |-> toISOString(now)])
         IN  [tasks |-> TasksSet(tasks, id, updatedTask),
              result |-> updatedTask]

\* updateTask(id, updateData): the new map and the task (or null) returned
updateTask(id, updateData) ==
    LET existingTask == TasksGet(tasks, id) IN
    IF existingTask = Undefined
    THEN [tasks |-> tasks, result |-> Null]
    ELSE LET updatedTask == Spread(Spread(existingTask, updateData),
                                   [id |-> id,
                                    createdAt |-> existingTask.createdAt,
                                    updatedAt |-> toISOString(now)])
         IN  [tasks |-> TasksSet(tasks, id, updatedTask),
              result |-> updatedTask]

\* a plausible slip: the task is returned but stays in the map
deleteTask_KeepsEntry(id) ==
    LET task == TasksGet(tasks, id) IN
    IF task = Undefined
    THEN [tasks |-> tasks, result |-> Null]
    ELSE [tasks |-> tasks, result |-> task]

\* deleteTask(id): the new map and the task (or null) returned
deleteTask(id) ==
    LET task == TasksGet(tasks, id) IN
    IF task = Undefined
    THEN [tasks |-> tasks, result |-> Null]
    ELSE [tasks |-> TasksDelete(tasks, id), result |-> task]

\* One call of a TaskStore method, with its effect on the store and on the
\* record of what the store returned.
CallCreateTask(taskData) ==
    LET r == createTask(taskData) IN
    /\ uuids < Len(sampleTasks) + MaxCreates
    /\ tasks' = r.tasks
    /\ uuids' = uuids + 1
    /\ created' = Append(created, r.result)
    /\ ret' = [op |-> "createTask", id |-> uuidv4, result |-> r.result]
    /\ calls' = calls + 1
    /\ UNCHANGED deleted

CallUpdateTask(id, updateData) ==
    LET r == updateTask(id, updateData) IN
    /\ tasks' = r.tasks
    /\ ret' = [op |-> "updateTask", id |-> id, result |-> r.result,
               data |-> updateData]
    /\ calls' = calls + 1
    /\ UNCHANGED <<uuids, created, deleted>>

CallDeleteTask(id) ==
    LET r == deleteTask(id) IN
    /\ tasks' = r.tasks
    /\ deleted' = IF r.result = Null THEN deleted ELSE deleted \cup {id}
    /\ ret' = [op |-> "deleteTask", id |-> id, result |-> r.result]
    /\ calls' = calls + 1
    /\ UNCHANGED <<uuids, created>>

CallGetTaskById(id) ==
    /\ ret' = [op |-> "getTaskById", id |-> id, result |-> getTaskById(id)]
    /\ calls' = calls + 1
    /\ UNCHANGED <<tasks, uuids, created, deleted>>

----------------------------------------------------------------------------
(* The state after construction: defaultStore is empty, taskStore holds   *)
(* the four sample tasks.                                                 *)

Init ==
    /\ now = StartTime
    /\ store = <<>>
    /\ resetTime = <<>>
    /\ log = <<>>
    /\ tasks = InitialTasks
    /\ uuids = Len(sampleTasks)
    /\ created = <<>>
    /\ deleted = {}
    /\ calls = 0
    /\ ret = [op |-> "init", id |-> <<>>, result |-> Null]
    /\ res = [statusCode |-> 0]
    /\ client = [pc |-> "idle", options |-> <<>>, maxRetries |-> 0,
                 attempt |-> 0, started |-> 0, wake |-> 0, fetches |-> <<>>,
                 lastError |-> Undefined, result |-> Undefined]

----------------------------------------------------------------------------
(* Limiter instances: createRateLimit(options) without an explicit store *)

Limiters == {"rateLimiter", "strictRateLimiter"}

\* parseInt(process.env.X) || default
EnvOr(value, default) == IF value = 0 THEN default ELSE value

windowMs(l) ==
    IF l = "rateLimiter"
    THEN EnvOr(EnvRateLimitWindowMs, DefaultWindowMs)
    ELSE IF l = "globalRateLimiter" THEN GlobalWindowMs
    ELSE StrictWindowMs

max(l) ==
    IF l = "rateLimiter"
    THEN EnvOr(EnvRateLimitMaxRequests, DefaultMax)
    ELSE IF l = "globalRateLimiter" THEN GlobalMax
    ELSE StrictMax

\* String.prototype.startsWith
startsWith(s, prefix) ==
    Len(prefix) <= Len(s) /\ SubSeq(s, 1, Len(prefix)) = prefix

S_health == <<"/", "h", "e", "a", "l", "t", "h">>
S_static == <<"/", "s", "t", "a", "t", "i", "c">>
S_favicon ==
    <<"/", "f", "a", "v", "i", "c", "o", "n", ".", "i", "c", "o">>

\* skip = () => false, but for globalRateLimiter
skip(l, req) ==
    /\ l = "globalRateLimiter"
    /\ \/ startsWith(req.path, S_health)
       \/ startsWith(req.path, S_static)
       \/ startsWith(req.path, S_favicon)

\* keyGenerator = (req) => req.ip
keyGenerator(l, req) == req.ip

----------------------------------------------------------------------------
(* MemoryStore *)

\* get(key): the entry, or a fresh record that ends 15 minutes from now
get(key) ==
    IF key \in DOMAIN store
    THEN store[key]
    ELSE [count |-> 0, resetTime |-> now + DefaultResetMs]

\* a plausible slip: the else branch does not count
increment_NoCount(key, w) ==
    LET current == get(key) IN
    IF now > current.resetTime
    THEN [count |-> 1, resetTime |-> now + w]
    ELSE current

\* a plausible slip: the window restarts at every check
increment_AlwaysReset(key, w) ==
    [count |-> 1, resetTime |-> now + w]

\* a plausible slip: every check moves the end of the window
increment_Sliding(key, w) ==
    LET current == get(key) IN
    IF now > current.resetTime
    THEN [count |-> 1, resetTime |-> now + w]
    ELSE [count |-> current.count + 1, resetTime |-> now + w]

\* increment(key, windowMs): the record it stores and returns
increment(key, w) ==
    LET current == get(key) IN
    IF now > current.resetTime
    THEN [count |-> 1, resetTime |-> now + w]
    ELSE [count |-> current.count + 1, resetTime |-> current.resetTime]

\* Map.prototype.set on a map modelled as a function
MapSet(m, key, value) ==
    [k \in DOMAIN m \cup {key} |-> IF k = key THEN value ELSE m[k]]

\* Map.prototype.delete of a set of keys
MapDelete(m, keys) == [k \in DOMAIN m \ keys |-> m[k]]

\* a plausible slip: the reset-time map is left out
set_CountOnly(key, value) ==
    /\ store' = MapSet(store, key, value)
    /\ resetTime' = resetTime

\* set(key, value): both maps
set(key, value) ==
    /\ store' = MapSet(store, key, value)
    /\ resetTime' = MapSet(resetTime, key, value.resetTime)

\* a plausible slip: the sweep also removes a window that ends now
Expired_Inclusive(key) == now >= resetTime[key]

\* cleanup(): the test of one entry of the resetTime map
Expired(key) == now > resetTime[key]

\* a plausible slip: one expired key empties the maps
cleanup_ClearsAll ==
    LET gone == IF \E k \in DOMAIN resetTime : Expired(k)
                THEN DOMAIN resetTime ELSE {}
    IN  /\ store' = MapDelete(store, gone)
        /\ resetTime' = MapDelete(resetTime, gone)

\* cleanup(): removes every expired key from both maps
cleanup ==
    LET gone == {k \in DOMAIN resetTime : Expired(k)} IN
    /\ store' = MapDelete(store, gone)
    /\ resetTime' = MapDelete(resetTime, gone)

----------------------------------------------------------------------------
(* createRateLimit: the middleware *)

\* Math.ceil(a / b) for b > 0
Ceil(a, b) == -((-a) \div b)

\* Math.max(0, x)
Max0(x) == IF x > 0 THEN x ELSE 0

\* a plausible slip: remaining is not clamped at 0
Response_Unclamped(l, key, current) ==
    LET base == [lim |-> l, key |-> key, t |-> now,
                 count |-> current.count,
                 limit |-> max(l),
                 remaining |-> max(l) - current.count,
                 reset |-> current.resetTime]
    IN  IF current.count <= max(l)
        THEN base @@ [admitted |-> TRUE]
        ELSE base @@ [admitted |-> FALSE,
                      statusCode |-> 429,
                      retryAfter |-> Ceil(current.resetTime - now, 1000)]

\* the outcome of one check: headers, and next() or the 429 response
Response(l, key, current) ==
    LET base == [lim |-> l, key |-> key, t |-> now,
                 count |-> current.count,
                 limit |-> max(l),
                 remaining |-> Max0(max(l) - current.count),
                 reset |-> current.resetTime]
    IN  IF current.count <= max(l)
        THEN base @@ [admitted |-> TRUE]
        ELSE base @@ [admitted |-> FALSE,
                      statusCode |-> 429,
                      retryAfter |-> Ceil(current.resetTime - now, 1000)]

\* what the middleware does with a request it skips: next(), no headers
Skipped(l, req) == [lim |-> l, req |-> req, t |-> now, admitted |-> TRUE]

\* a plausible slip: a rejected check does not store its increment
RateLimit_RejectedNotStored(l, req) ==
    /\ Len(log) < MaxChecks
    /\ LET key == keyGenerator(l, req)
           current == increment(key, windowMs(l))
       IN  /\ IF current.count <= max(l)
              THEN set(key, current)
              ELSE UNCHANGED <<store, resetTime>>
           /\ log' = Append(log,
                        Response(l, key, current) @@ [req |-> req])
    /\ UNCHANGED now
    /\ UNCHANGED taskVars
    /\ UNCHANGED res
    /\ UNCHANGED client

\* a plausible slip: the skip test comes after the increment
RateLimit_CountsSkipped(l, req) ==
    /\ Len(log) < MaxChecks
    /\ LET key == keyGenerator(l, req)
           current == increment(key, windowMs(l))
       IN  /\ set(key, current)
           /\ log' = Append(log,
                        IF skip(l, req)
                        THEN Skipped(l, req)
                        ELSE Response(l, key, current) @@ [req |-> req])
    /\ UNCHANGED now
    /\ UNCHANGED taskVars
    /\ UNCHANGED res
    /\ UNCHANGED client

\* the middleware returned by createRateLimit, for one request
RateLimit(l, req) ==
    /\ Len(log) < MaxChecks
    /\ IF skip(l, req)
       THEN /\ log' = Append(log, Skipped(l, req))
            /\ UNCHANGED <<store, resetTime>>
       ELSE LET key == keyGenerator(l, req)
                current == increment(key, windowMs(l))
            IN  /\ set(key, current)
                /\ log' = Append(log,
                             Response(l, key, current) @@ [req |-> req])
    /\ UNCHANGED now
    /\ UNCHANGED taskVars
    /\ UNCHANGED res
    /\ UNCHANGED client

\* setInterval(() => this.cleanup(), 5 * 60 * 1000)
Sweep ==
    /\ cleanup
    /\ UNCHANGED <<now, log>>
    /\ UNCHANGED taskVars
    /\ UNCHANGED res
    /\ UNCHANGED client

\* the clock advances
Tick ==
    /\ \E t \in Instants : t > now /\ now' = t
    /\ UNCHANGED rateVars
    /\ UNCHANGED taskVars
    /\ UNCHANGED res
    /\ UNCHANGED client

InitRateLimit == Init

NextRateLimit ==
    \/ \E l \in Limiters, req \in Requests : RateLimit(l, req)
    \/ Sweep
    \/ Tick

SpecRateLimit == InitRateLimit /\ [][NextRateLimit]_vars

\* globalRateLimiter alone, in front of the health check and of the API
SkipLimiters == {"globalRateLimiter"}

S_tasks == <<"/", "t", "a", "s", "k", "s">>

SkipRequests == [ip : Ips, path : {S_health \o <<"/", "z">>, S_tasks}]

NextSkip ==
    \/ \E l \in SkipLimiters, req \in SkipRequests : RateLimit(l, req)
    \/ Sweep
    \/ Tick

SpecSkip == Init /\ [][NextSkip]_vars

\* rateLimiter in front of two clients, whose windows end at different times
SweepIps == {"10.0.0.1", "10.0.0.2"}

SweepRequests == [ip : SweepIps]

NextSweep ==
    \/ \E req \in SweepRequests : RateLimit("rateLimiter", req)
    \/ Sweep
    \/ Tick

SpecSweep == Init /\ [][NextSweep]_vars

----------------------------------------------------------------------------
(* The task store used directly, through its public methods *)

\* the argument objects of createTask
TaskDatas ==
    { [title |-> <<"A">>, status |-> S_pending, priority |-> S_low],
      [title |-> <<"B">>, status |-> S_completed, priority |-> S_high],
      [title |-> <<"A">>, id |-> S_x],
      [title |-> <<"B">>, id |-> Uuid(1)] }

\* the argument objects of updateTask
UpdateDatas ==
    { [status |-> S_completed],
      [title |-> <<"B">>, tags |-> << <<"t">> >>],
      [id |-> S_x, createdAt |-> toISOString(0)] }

\* the ids passed to getTaskById, updateTask and deleteTask: a sample task,
\* the first created task, and a string that is never a key
IdInputs == {Uuid(1), Uuid(Len(sampleTasks) + 1), S_x}

\* the instants at which the store is used
StoreInstants == {StartTime, StartTime + EnvRateLimitWindowMs}

StoreCreate(taskData) ==
    /\ calls < MaxCalls
    /\ CallCreateTask(taskData)
    /\ UNCHANGED now
    /\ UNCHANGED rateVars
    /\ UNCHANGED res
    /\ UNCHANGED client

StoreUpdate(id, updateData) ==
    /\ calls < MaxCalls
    /\ CallUpdateTask(id, updateData)
    /\ UNCHANGED now
    /\ UNCHANGED rateVars
    /\ UNCHANGED res
    /\ UNCHANGED client

StoreDelete(id) ==
    /\ calls < MaxCalls
    /\ CallDeleteTask(id)
    /\ UNCHANGED now
    /\ UNCHANGED rateVars
    /\ UNCHANGED res
    /\ UNCHANGED client

StoreGet(id) ==
    /\ calls < MaxCalls
    /\ CallGetTaskById(id)
    /\ UNCHANGED now
    /\ UNCHANGED rateVars
    /\ UNCHANGED res
    /\ UNCHANGED client

StoreTick ==
    /\ \E t \in StoreInstants : t > now /\ now' = t
    /\ UNCHANGED rateVars
    /\ UNCHANGED taskVars
    /\ UNCHANGED res
    /\ UNCHANGED client

NextStore ==
    \/ \E d \in TaskDatas : StoreCreate(d)
    \/ \E id \in IdInputs, d \in UpdateDatas : StoreUpdate(id, d)
    \/ \E id \in IdInputs : StoreDelete(id)
    \/ \E id \in IdInputs : StoreGet(id)
    \/ StoreTick

SpecStore == Init /\ [][NextStore]_vars


----------------------------------------------------------------------------
(* Validation: utils/validators.js and middleware/validation.js.  The     *)
(* request bodies of the model carry strings where strings are expected   *)
(* and arrays of strings as tags, so the typeof tests are not modelled.   *)

MaxTitleLength == 200
MaxDescriptionLength == 1000
MaxTagLength == 50
MaxAssigneeLength == 100

Whitespace == {" "}

RECURSIVE TrimStart(_)
TrimStart(s) ==
    IF s # <<>> /\ Head(s) \in Whitespace THEN TrimStart(Tail(s)) ELSE s

RECURSIVE TrimEnd(_)
TrimEnd(s) ==
    IF s # <<>> /\ s[Len(s)] \in Whitespace
    THEN TrimEnd(SubSeq(s, 1, Len(s) - 1))
    ELSE s

\* String.prototype.trim
trim(s) == TrimEnd(TrimStart(s))

UpperCase ==
    <<"A", "B", "C", "D", "E", "F", "G", "H", "I", "J", "K", "L", "M",
      "N", "O", "P", "Q", "R", "S", "T", "U", "V", "W", "X", "Y", "Z">>

LowerCase ==
    <<"a", "b", "c", "d", "e", "f", "g", "h", "i", "j", "k", "l", "m",
      "n", "o", "p", "q", "r", "s", "t", "u", "v", "w", "x", "y", "z">>

\* String.prototype.toLowerCase
toLowerCase(s) ==
    [i \in 1..Len(s) |->
        IF \E n \in 1..Len(UpperCase) : UpperCase[n] = s[i]
        THEN LowerCase[CHOOSE n \in 1..Len(UpperCase) : UpperCase[n] = s[i]]
        ELSE s[i]]

\* array.filter((x, index, array) => array.indexOf(x) === index)
RECURSIVE Dedupe(_)
Dedupe(a) ==
    IF a = <<>> THEN <<>>
    ELSE LET front == Dedupe(SubSeq(a, 1, Len(a) - 1))
             last == a[Len(a)]
         IN  IF \E i \in 1..Len(front) : front[i] = last
             THEN front ELSE Append(front, last)

validStatuses == {S_pending, S_in_progress, S_completed, S_cancelled}
validPriorities == {S_low, S_medium, S_high, S_urgent}

\* validateTaskData(task, isUpdate): the errors it collects
validateTaskData(task, isUpdate) ==
    LET has(k) == k \in DOMAIN task
        errors ==
            (IF ~isUpdate /\ (~has("title") \/ Len(trim(task.title)) = 0)
             THEN {"Title is required and must be a non-empty string"}
             ELSE {})
            \cup
            (IF has("title") /\ Len(trim(task.title)) = 0
             THEN {"Title cannot be empty"}
             ELSE IF has("title") /\ Len(task.title) > MaxTitleLength
             THEN {"Title must be less than 200 characters"}
             ELSE {})
            \cup
            (IF has("description")
                /\ Len(task.description) > MaxDescriptionLength
             THEN {"Description must be less than 1000 characters"}
             ELSE {})
            \cup
            (IF has("status") /\ task.status \notin validStatuses
             THEN {"Status must be one of"} ELSE {})
            \cup
            (IF has("priority") /\ task.priority \notin validPriorities
             THEN {"Priority must be one of"} ELSE {})
            \cup
            (IF has("dueDate") /\ "iso" \notin DOMAIN task.dueDate
             THEN {"Due date must be a valid ISO 8601 date string"}
             ELSE {})
            \cup
            (IF has("tags")
                /\ \E i \in 1..Len(task.tags) :
                      Len(task.tags[i]) > MaxTagLength
             THEN {"Tag must be less than 50 characters"} ELSE {})
            \cup
            (IF has("assignee") /\ Len(trim(task.assignee)) = 0
             THEN {"Assignee must be a non-empty string"}
             ELSE IF has("assignee")
                     /\ Len(task.assignee) > MaxAssigneeLength
             THEN {"Assignee must be less than 100 characters"}
             ELSE {})
    IN  [isValid |-> errors = {}, errors |-> errors]

\* sanitizeTaskData(task)
sanitizeTaskData(task) ==
    LET NonEmpty(x) == x # <<>>
        clean(k) ==
            IF k \in {"title", "description", "assignee"}
            THEN (IF task[k] # <<>> THEN trim(task[k]) ELSE task[k])
            ELSE IF k = "tags"
            THEN Dedupe(SelectSeq([i \in 1..Len(task.tags) |->
                                      trim(task.tags[i])], NonEmpty))
            ELSE IF k \in {"status", "priority"}
            THEN (IF task[k] # <<>> THEN toLowerCase(task[k]) ELSE task[k])
            ELSE task[k]
    IN  [k \in DOMAIN task |-> clean(k)]

\* What a middleware did with a request: the status of the response it
\* sent (0: none), whether it called next(), and what it left on req.
Passed == [next |-> TRUE, statusCode |-> 0]

\* a plausible slip: the return before res.status(400) is missing, so the
\* middleware answers 400 and goes on to the next handler
validateTask_FallsThrough(req) ==
    IF ~validateTaskData(req.body, FALSE).isValid
    THEN [next |-> TRUE, statusCode |-> 400]
    ELSE Passed @@ [validatedData |-> sanitizeTaskData(req.body)]

\* validateTask(req, res, next)
validateTask(req) ==
    IF ~validateTaskData(req.body, FALSE).isValid
    THEN [next |-> FALSE, statusCode |-> 400]
    ELSE Passed @@ [validatedData |-> sanitizeTaskData(req.body)]

\* a plausible slip: the body of an update is sanitized but not validated
validateUpdateTask_NoCheck(req) ==
    IF DOMAIN req.body = {}
    THEN [next |-> FALSE, statusCode |-> 400]
    ELSE Passed @@ [validatedData |-> sanitizeTaskData(req.body)]

\* validateUpdateTask(req, res, next)
validateUpdateTask(req) ==
    IF DOMAIN req.body = {}
    THEN [next |-> FALSE, statusCode |-> 400]
    ELSE IF ~validateTaskData(req.body, TRUE).isValid
    THEN [next |-> FALSE, statusCode |-> 400]
    ELSE Passed @@ [validatedData |-> sanitizeTaskData(req.body)]

----------------------------------------------------------------------------
(* The task routes (routes/taskRoutes.js) and their controllers           *)
(* (controllers/taskController_simple.js), behind the rate limiter of the *)
(* core middleware stack.  Every handler of the chain is synchronous, so  *)
(* a request is handled in one step.                                      *)

\* the validation middleware of a route
RouteValidation(req) ==
    IF req.method = "POST" THEN validateTask(req)
    ELSE IF req.method \in {"PUT", "PATCH"} THEN validateUpdateTask(req)
    ELSE Passed

\* errorHandler: err.statusCode || 500, for a TaskNotFoundError
NotFoundStatus == 404

\* the controller of a route: its TaskStore call
Controller(req, checked) ==
    LET data == IF "validatedData" \in DOMAIN checked
                THEN checked.validatedData ELSE req.body
    IN  IF req.method = "POST" THEN CallCreateTask(data)
        ELSE IF req.method \in {"PUT", "PATCH"}
        THEN CallUpdateTask(req.id, data)
        ELSE IF req.method = "DELETE" THEN CallDeleteTask(req.id)
        ELSE CallGetTaskById(req.id)

\* the controller of a route: the status it answers with, given what the
\* store returned
ControllerStatus(req, returned) ==
    IF req.method = "POST" THEN 201
    ELSE IF returned = Null THEN NotFoundStatus
    ELSE 200

\* one request through rateLimiter, the route's validation and controller;
\* the response is the first one sent
Handle(req) ==
    /\ Len(log) < MaxChecks
    /\ LET key == keyGenerator("rateLimiter", req)
           current == increment(key, windowMs("rateLimiter"))
           limited == Response("rateLimiter", key, current)
           checked == RouteValidation(req)
           sent == IF ~limited.admitted THEN limited.statusCode
                   ELSE checked.statusCode
       IN  /\ set(key, current)
           /\ log' = Append(log, limited)
           /\ IF limited.admitted /\ checked.next
              THEN Controller(req, checked)
              ELSE UNCHANGED taskVars
           /\ res' = IF sent # 0
                     THEN [statusCode |-> sent]
                     ELSE [statusCode |-> ControllerStatus(req, ret'.result)]
    /\ UNCHANGED now
    /\ UNCHANGED client

S_invalid_status ==
    <<"i", "n", "v", "a", "l", "i", "d", "-", "s", "t", "a", "t", "u", "s">>

\* the request bodies of POST /tasks
PostBodies ==
    { [title |-> <<"A">>, status |-> S_pending, priority |-> S_low],
      [title |-> <<" ", "B", " ">>, id |-> S_x],
      [title |-> <<" ">>, status |-> S_invalid_status],
      [status |-> S_pending] }

\* the request bodies of PUT /tasks/:id
PutBodies ==
    { [status |-> S_completed],
      [title |-> <<"C", " ">>],
      [status |-> S_invalid_status],
      <<>> }

\* the ids of the requests: the first created task, and no task
ApiIds == {Uuid(Len(sampleTasks) + 1), S_x}

ApiRequests ==
    [method : {"POST"}, id : {<<>>}, body : PostBodies, ip : Ips]
    \cup [method : {"PUT"}, id : ApiIds, body : PutBodies, ip : Ips]
    \cup [method : {"DELETE", "GET"}, id : ApiIds, body : {<<>>}, ip : Ips]

\* the instants at which requests arrive
ApiInstants == {StartTime, StartTime + DefaultResetMs + 1}

ApiTick ==
    /\ \E t \in ApiInstants : t > now /\ now' = t
    /\ UNCHANGED rateVars
    /\ UNCHANGED taskVars
    /\ UNCHANGED res
    /\ UNCHANGED client

NextApi ==
    \/ \E req \in ApiRequests : Handle(req)
    \/ Sweep
    \/ ApiTick

SpecApi == Init /\ [][NextApi]_vars

----------------------------------------------------------------------------
(* TaskStore.getAllTasks and the validation of its options               *)
(* (utils/validators.js: validateQueryParams).                            *)

S_asc == <<"a", "s", "c">>
S_desc == <<"d", "e", "s", "c">>

\* the characters that occur in the model's strings, by rising code unit
CodeUnits ==
    <<" ", "-", "0", "1", "2", "3", "4", "5", "6", "7", "8", "9">>
    \o UpperCase \o LowerCase

charCodeAt(c) == CHOOSE n \in 1..Len(CodeUnits) : CodeUnits[n] = c

\* a < b for two strings: by code units, a proper prefix first
RECURSIVE StringLess(_, _)
StringLess(a, b) ==
    IF b = <<>> THEN FALSE
    ELSE IF a = <<>> THEN TRUE
    ELSE IF Head(a) = Head(b) THEN StringLess(Tail(a), Tail(b))
    ELSE charCodeAt(Head(a)) < charCodeAt(Head(b))

\* String.prototype.includes
includes(s, sub) ==
    \E i \in 0..(Len(s) - Len(sub)) : SubSeq(s, i + 1, i + Len(sub)) = sub

\* parseInt(s, 10) of a string of decimal digits; NaN for any other string
parseInt(s) ==
    LET Digits == SubSeq(CodeUnits, 3, 12)
        IsDigit(c) == \E n \in 1..10 : Digits[n] = c
        Value(c) == (CHOOSE n \in 1..10 : Digits[n] = c) - 1
        Number[n \in 0..Len(s)] ==
            IF n = 0 THEN 0 ELSE 10 * Number[n - 1] + Value(s[n])
    IN  IF s # <<>> /\ \A n \in 1..Len(s) : IsDigit(s[n])
        THEN [isNaN |-> FALSE, value |-> Number[Len(s)]]
        ELSE [isNaN |-> TRUE]

MaxLimit == 100
MaxSearchLength == 100

validSortFields ==
    {"title", "status", "priority", "dueDate", "createdAt", "updatedAt"}

validSortOrders == {S_asc, S_desc}

\* validateQueryParams(query) of utils/validators.js.  A date of the query
\* string is [iso |-> ms] when it parses and any other record when not.
validateQueryParams(query) ==
    LET has(k) == k \in DOMAIN query
        page == parseInt(query.page)
        limit == parseInt(query.limit)
        pageOk == ~page.isNaN /\ page.value >= 1
        limitOk == ~limit.isNaN /\ limit.value >= 1 /\ limit.value <= MaxLimit
        sortByOk == query.sortBy \in validSortFields
        sortOrderOk == toLowerCase(query.sortOrder) \in validSortOrders
        statusOk == query.status \in validStatuses
        priorityOk == query.priority \in validPriorities
        assigneeOk == Len(trim(query.assignee)) # 0
        searchKept == /\ Len(trim(query.search)) # 0
                      /\ Len(query.search) <= MaxSearchLength
        fromOk == "iso" \in DOMAIN query.dueDateFrom
        toOk == "iso" \in DOMAIN query.dueDateTo
        errors ==
            (IF has("page") /\ ~pageOk
             THEN {"Page must be a positive integer"} ELSE {})
            \cup
            (IF has("limit") /\ (limit.isNaN \/ limit.value < 1)
             THEN {"Limit must be a positive integer"}
             ELSE IF has("limit") /\ limit.value > MaxLimit
             THEN {"Limit cannot exceed 100"} ELSE {})
            \cup
            (IF has("sortBy") /\ ~sortByOk
             THEN {"Sort field must be one of"} ELSE {})
            \cup
            (IF has("sortOrder") /\ ~sortOrderOk
             THEN {"Sort order must be asc or desc"} ELSE {})
            \cup
            (IF has("status") /\ ~statusOk
             THEN {"Status filter must be one of"} ELSE {})
            \cup
            (IF has("priority") /\ ~priorityOk
             THEN {"Priority filter must be one of"} ELSE {})
            \cup
            (IF has("assignee") /\ ~assigneeOk
             THEN {"Assignee filter must be a non-empty string"} ELSE {})
            \cup
            (IF has("search") /\ Len(trim(query.search)) # 0
                /\ Len(query.search) > MaxSearchLength
             THEN {"Search query must be less than 100 characters"}
             ELSE {})
            \cup
            (IF has("dueDateFrom") /\ ~fromOk
             THEN {"dueDateFrom must be a valid ISO 8601 date string"}
             ELSE {})
            \cup
            (IF has("dueDateTo") /\ ~toOk
             THEN {"dueDateTo must be a valid ISO 8601 date string"}
             ELSE {})
            \cup
            (IF has("dueDateFrom") /\ has("dueDateTo") /\ fromOk /\ toOk
                /\ query.dueDateFrom.iso > query.dueDateTo.iso
             THEN {"dueDateFrom must be before dueDateTo"} ELSE {})
        kept ==
            {k \in DOMAIN query :
                \/ k = "page" /\ pageOk
                \/ k = "limit" /\ limitOk
                \/ k = "sortBy" /\ sortByOk
                \/ k = "sortOrder" /\ sortOrderOk
                \/ k = "status" /\ statusOk
                \/ k = "priority" /\ priorityOk
                \/ k = "assignee" /\ assigneeOk
                \/ k = "search" /\ searchKept
                \/ k = "dueDateFrom" /\ fromOk
                \/ k = "dueDateTo" /\ toOk}
        validated ==
            [k \in kept |->
                IF k = "page" THEN page.value
                ELSE IF k = "limit" THEN limit.value
                ELSE IF k = "sortOrder" THEN toLowerCase(query.sortOrder)
                ELSE IF k \in {"assignee", "search"} THEN trim(query[k])
                ELSE query[k]]
    IN  [isValid |-> errors = {}, errors |-> errors, validated |-> validated]

\* an option of getAllTasks(options = {}), with the default of the
\* destructuring for an absent one
Option(options, k, default) ==
    IF k \in DOMAIN options THEN options[k] ELSE default

DefaultPage == 1
DefaultLimit == 10

\* what a call yields when it raises instead of returning
Threw == [threw |-> "TypeError"]

\* the search filter's callback for one task raises a TypeError when it
\* calls toLowerCase on a title or a description the task does not have
SearchThrows(task, searchLower) ==
    \/ "title" \notin DOMAIN task
    \/ /\ ~includes(toLowerCase(task.title), searchLower)
       /\ "description" \notin DOMAIN task

\* the search filter's callback for one task, when it does not raise
SearchMatch(task, searchLower) ==
    \/ includes(toLowerCase(task.title), searchLower)
    \/ includes(toLowerCase(task.description), searchLower)
    \/ /\ "tags" \in DOMAIN task
       /\ \E i \in 1..Len(task.tags) :
             includes(toLowerCase(task.tags[i]), searchLower)

\* the callbacks of the other filters
FilterMatch(task, options) ==
    LET on(k) == k \in DOMAIN options IN
    /\ on("status") /\ options.status # <<>>
          => task.status = options.status
    /\ on("priority") /\ options.priority # <<>>
          => task.priority = options.priority
    /\ on("assignee") /\ options.assignee # <<>>
          => /\ "assignee" \in DOMAIN task
             /\ task.assignee # <<>>
             /\ includes(toLowerCase(task.assignee),
                         toLowerCase(options.assignee))
    /\ on("dueDateFrom")
          => /\ "dueDate" \in DOMAIN task
             /\ task.dueDate.iso >= options.dueDateFrom.iso
    /\ on("dueDateTo")
          => /\ "dueDate" \in DOMAIN task
             /\ task.dueDate.iso <= options.dueDateTo.iso

DateFields == {"createdAt", "updatedAt", "dueDate"}

\* the comparator handed to tasksArray.sort: -1, 0 or 1.  new Date(undefined)
\* is an invalid date, and every comparison with it is false.
compare(a, b, sortBy, sortOrder) ==
    LET asc == sortOrder = S_asc
        less ==
            IF sortBy \in DateFields
            THEN /\ sortBy \in DOMAIN a /\ sortBy \in DOMAIN b
                 /\ a[sortBy].iso < b[sortBy].iso
            ELSE StringLess(toLowerCase(a[sortBy]), toLowerCase(b[sortBy]))
        greater ==
            IF sortBy \in DateFields
            THEN /\ sortBy \in DOMAIN a /\ sortBy \in DOMAIN b
                 /\ a[sortBy].iso > b[sortBy].iso
            ELSE StringLess(toLowerCase(b[sortBy]), toLowerCase(a[sortBy]))
    IN  IF less THEN (IF asc THEN -1 ELSE 1)
        ELSE IF greater THEN (IF asc THEN 1 ELSE -1)
        ELSE 0

\* Array.prototype.sort(comparator) as the host (Node.js, V8) runs it on an
\* array of fewer than 64 elements: the leading run is found (a strictly
\* descending one is reversed) and every later element is put in place by a
\* binary insertion.  With a comparator that orders the elements
\* consistently this is the stable sort of the language standard.
RECURSIVE RunEnd(_, _, _, _, _)
RunEnd(arr, idx, isDescending, sortBy, sortOrder) ==
    IF idx > Len(arr) THEN idx - 1
    ELSE LET order == compare(arr[idx], arr[idx - 1], sortBy, sortOrder) IN
         IF (isDescending /\ order >= 0) \/ (~isDescending /\ order < 0)
         THEN idx - 1
         ELSE RunEnd(arr, idx + 1, isDescending, sortBy, sortOrder)

Reverse(arr) == [i \in 1..Len(arr) |-> arr[Len(arr) + 1 - i]]

\* the number of elements of arr[1..right] the pivot is put behind
RECURSIVE InsertionPoint(_, _, _, _, _, _)
InsertionPoint(arr, pivot, left, right, sortBy, sortOrder) ==
    IF left >= right THEN left
    ELSE LET mid == left + ((right - left) \div 2)
             order == compare(pivot, arr[mid + 1], sortBy, sortOrder)
         IN  IF order < 0
             THEN InsertionPoint(arr, pivot, left, mid, sortBy, sortOrder)
             ELSE InsertionPoint(arr, pivot, mid + 1, right, sortBy, sortOrder)

\* arr[1..start] is in place; the elements after it are inserted in turn
RECURSIVE BinaryInsertionSort(_, _, _, _)
BinaryInsertionSort(arr, start, sortBy, sortOrder) ==
    IF start >= Len(arr) THEN arr
    ELSE LET pivot == arr[start + 1]
             left == InsertionPoint(arr, pivot, 0, start, sortBy, sortOrder)
             placed == SubSeq(arr, 1, left) \o <<pivot>>
                       \o SubSeq(arr, left + 1, start)
                       \o SubSeq(arr, start + 2, Len(arr))
         IN  BinaryInsertionSort(placed, start + 1, sortBy, sortOrder)

sort(arr, sortBy, sortOrder) ==
    IF Len(arr) < 2 THEN arr
    ELSE LET isDescending == compare(arr[2], arr[1], sortBy, sortOrder) < 0
             runLength == RunEnd(arr, 3, isDescending, sortBy, sortOrder)
             run == IF isDescending
                    THEN Reverse(SubSeq(arr, 1, runLength))
                    ELSE SubSeq(arr, 1, runLength)
         IN  BinaryInsertionSort(run \o SubSeq(arr, runLength + 1, Len(arr)),
                                 runLength, sortBy, sortOrder)

\* Array.prototype.slice(startIndex, endIndex), indices from 0
slice(arr, startIndex, endIndex) ==
    LET from == IF startIndex < Len(arr) THEN startIndex ELSE Len(arr)
        to == IF endIndex < Len(arr) THEN endIndex ELSE Len(arr)
    IN  SubSeq(arr, from + 1, to)

\* Array.from(this.tasks.values())
TaskValues == [i \in 1..Len(tasks) |-> tasks[i].val]

\* getAllTasks: the array after the filters, unless a filter raised
Filtered(options) ==
    LET searching == "search" \in DOMAIN options /\ options.search # <<>>
        searchLower == toLowerCase(options.search)
        Kept(task) == FilterMatch(task, options)
        plain == SelectSeq(TaskValues, Kept)
        Found(task) == SearchMatch(task, searchLower)
    IN  IF ~searching THEN [threw |-> FALSE, tasksArray |-> plain]
        ELSE IF \E i \in 1..Len(plain) : SearchThrows(plain[i], searchLower)
        THEN [threw |-> TRUE, tasksArray |-> <<>>]
        ELSE [threw |-> FALSE, tasksArray |-> SelectSeq(plain, Found)]

\* getAllTasks: the array after the filters and the sort
Sorted(options) ==
    sort(Filtered(options).tasksArray,
         Option(options, "sortBy", "createdAt"),
         Option(options, "sortOrder", S_desc))

\* a plausible slip: the pages start one page late
getAllTasks_PageOff(options) ==
    LET page == Option(options, "page", DefaultPage)
        limit == Option(options, "limit", DefaultLimit)
        tasksArray == Sorted(options)
        total == Len(tasksArray)
        startIndex == page * limit
        endIndex == startIndex + limit
    IN  IF Filtered(options).threw THEN Threw
        ELSE [data |-> slice(tasksArray, startIndex, endIndex),
              pagination |->
                 [page |-> page, limit |-> limit, total |-> total,
                  totalPages |-> Ceil(total, limit),
                  hasNextPage |-> endIndex < total,
                  hasPreviousPage |-> page > 1]]

\* getAllTasks(options): { data, pagination }, or Threw
getAllTasks(options) ==
    LET page == Option(options, "page", DefaultPage)
        limit == Option(options, "limit", DefaultLimit)
        tasksArray == Sorted(options)
        total == Len(tasksArray)
        startIndex == (page - 1) * limit
        endIndex == startIndex + limit
    IN  IF Filtered(options).threw THEN Threw
        ELSE [data |-> slice(tasksArray, startIndex, endIndex),
              pagination |->
                 [page |-> page, limit |-> limit, total |-> total,
                  totalPages |-> Ceil(total, limit),
                  hasNextPage |-> endIndex < total,
                  hasPreviousPage |-> page > 1]]

WeekMs == 604800000     \* 7 * 24 * 60 * 60 * 1000

\* parseFloat(((num / den) * 100).toFixed(1)), in tenths: the nearest tenth.
\* (A quotient half way between two tenths needs den to be a multiple of 16.)
toFixed1(num, den) == (2000 * num + den) \div (2 * den)

\* getStatistics(); completionRate is in tenths of a percent
getStatistics ==
    LET allTasks == TaskValues
        total == Len(allTasks)
        Count(Test(_)) ==
            Cardinality({i \in 1..total : Test(allTasks[i])})
        Pending(task) == task.status = S_pending
        InProgress(task) == task.status = S_in_progress
        Completed(task) == task.status = S_completed
        Cancelled(task) == task.status = S_cancelled
        Low(task) == task.priority = S_low
        Medium(task) == task.priority = S_medium
        High(task) == task.priority = S_high
        Urgent(task) == task.priority = S_urgent
        byStatus == [pending |-> Count(Pending),
                     inProgress |-> Count(InProgress),
                     completed |-> Count(Completed),
                     cancelled |-> Count(Cancelled)]
        byPriority == [low |-> Count(Low), medium |-> Count(Medium),
                       high |-> Count(High), urgent |-> Count(Urgent)]
        completed == byStatus.completed
        Open(task) == ~Completed(task) /\ ~Cancelled(task)
        Overdue(task) ==
            /\ "dueDate" \in DOMAIN task
            /\ task.dueDate.iso < now
            /\ Open(task)
        DueSoon(task) ==
            /\ "dueDate" \in DOMAIN task
            /\ task.dueDate.iso <= now + WeekMs
            /\ task.dueDate.iso >= now
            /\ Open(task)
    IN  [total |-> total,
         active |-> total - completed - byStatus.cancelled,
         completed |-> completed,
         completionRate |-> IF total > 0 THEN toFixed1(completed, total) ELSE 0,
         overdue |-> Count(Overdue),
         dueSoon |-> Count(DueSoon),
         byStatus |-> byStatus,
         byPriority |-> byPriority,
         lastUpdated |-> toISOString(now)]

\* One call of getAllTasks or getStatistics: nothing of the store changes
CallGetAllTasks(options) ==
    /\ ret' = [op |-> "getAllTasks", id |-> <<>>,
               result |-> getAllTasks(options), options |-> options]
    /\ calls' = calls + 1
    /\ UNCHANGED <<tasks, uuids, created, deleted>>

CallGetStatistics ==
    /\ ret' = [op |-> "getStatistics", id |-> <<>>, result |-> getStatistics]
    /\ calls' = calls + 1
    /\ UNCHANGED <<tasks, uuids, created, deleted>>

----------------------------------------------------------------------------
(* The task store used directly by a caller that keeps what it returns *)

StoreStats ==
    /\ calls < MaxCalls
    /\ CallGetStatistics
    /\ UNCHANGED now
    /\ UNCHANGED rateVars
    /\ UNCHANGED res
    /\ UNCHANGED client

\* The task a method returns is the object the map holds (createTask and
\* updateTask return the object they stored, getTaskById returns
\* this.tasks.get(id)), not a copy: when the caller assigns to a property
\* of it, the stored task changes with it.  The object deleteTask returns
\* is no longer in the map.
CallerWrites(k, v) ==
    /\ ret.op \in {"createTask", "getTaskById", "updateTask", "deleteTask"}
    /\ ret.result # Null
    /\ ret.result[k] # v
    /\ LET changed == Spread(ret.result, [x \in {k} |-> v]) IN
       /\ ret' = [ret EXCEPT !.result = changed]
       /\ tasks' = IF ret.op = "deleteTask"
                   THEN tasks
                   ELSE TasksSet(tasks, ret.id, changed)
    /\ UNCHANGED <<uuids, created, deleted, calls>>

\* what the caller assigns: task.title = 'Z'
CallerFields == {"title"}
CallerValues == {<<"Z">>}

StoreCallerWrites(k, v) ==
    /\ CallerWrites(k, v)
    /\ UNCHANGED now
    /\ UNCHANGED rateVars
    /\ UNCHANGED res
    /\ UNCHANGED client

\* the store, its statistics, and a caller that writes to what it was
\* handed
NextCaller ==
    \/ \E d \in TaskDatas : StoreCreate(d)
    \/ \E id \in IdInputs, d \in UpdateDatas : StoreUpdate(id, d)
    \/ \E id \in IdInputs : StoreDelete(id)
    \/ \E id \in IdInputs : StoreGet(id)
    \/ StoreStats
    \/ \E k \in CallerFields, v \in CallerValues : StoreCallerWrites(k, v)
    \/ StoreTick

SpecCaller == Init /\ [][NextCaller]_vars

----------------------------------------------------------------------------
(* The task store queried after validated creates, updates and deletes *)

MaxQueryCreates == 4    \* createTask calls in one behaviour (SpecQuery)
MaxQueryCalls == 2      \* other TaskStore calls in one behaviour (SpecQuery)

\* dueDates between those of the third and of the fourth sample task:
\* 2024-01-27T08:00:00.000Z and 2024-01-28T08:00:00.000Z
QueryDueDates == <<toISOString(1468800000), toISOString(1555200000)>>

\* request bodies of POST /tasks; the first has neither description nor
\* dueDate
QueryPostBodies ==
    { [title |-> <<"x">>],
      [title |-> <<"P">>, description |-> <<"d">>,
       dueDate |-> QueryDueDates[2]],
      [title |-> <<"w">>, description |-> <<"d">>,
       dueDate |-> QueryDueDates[1]] }

\* request bodies of PUT /tasks/:id
QueryPutBodies == { [description |-> <<"e">>] }

\* what validateTask and validateUpdateTask leave on req.validatedData
QueryTaskDatas ==
    { sanitizeTaskData(b) :
        b \in {c \in QueryPostBodies : validateTaskData(c, FALSE).isValid} }

QueryUpdateDatas ==
    { sanitizeTaskData(b) :
        b \in {c \in QueryPutBodies : validateTaskData(c, TRUE).isValid} }

\* the id of updates, deletes and reads: the first created task
QueryIds == {Uuid(Len(sampleTasks) + 1)}

\* query strings of GET /tasks
QueryStrings ==
    { <<>>,
      [sortBy |-> "dueDate", sortOrder |-> <<"A", "S", "C">>],
      [sortBy |-> "dueDate", sortOrder |-> S_desc],
      [sortBy |-> "title", sortOrder |-> S_asc],
      [sortBy |-> "priority"],
      [sortBy |-> "updatedAt", sortOrder |-> S_asc, limit |-> <<"3">>,
       page |-> <<"2">>],
      [search |-> <<"d">>],
      [search |-> <<" ", "X", " ">>, sortBy |-> "title"],
      [limit |-> <<"2">>, page |-> <<"3">>],
      [status |-> S_pending, sortBy |-> "dueDate", sortOrder |-> S_asc],
      [assignee |-> <<"d", "E", "V">>, priority |-> S_high],
      [dueDateFrom |-> toISOString(896400000), dueDateTo |-> QueryDueDates[1]],
      [page |-> <<"0">>],
      [limit |-> <<"1", "0", "1">>],
      [sortBy |-> "id"] }

\* what validateQueryParams leaves on req.validatedQuery
QueryOptions ==
    { validateQueryParams(q).validated :
        q \in {r \in QueryStrings : validateQueryParams(r).isValid} }

\* A behaviour of SpecQuery creates tasks, then makes its other calls, the
\* last of which is the query.
QueryCreate(taskData) ==
    /\ Len(created) < MaxQueryCreates
    /\ calls = Len(created)
    /\ LET r == createTask(taskData) IN
       /\ tasks' = r.tasks
       /\ uuids' = uuids + 1
       /\ created' = Append(created, r.result)
       /\ ret' = [op |-> "createTask", id |-> uuidv4, result |-> r.result]
       /\ calls' = calls + 1
    /\ UNCHANGED <<now, deleted, res>>
    /\ UNCHANGED client
    /\ UNCHANGED rateVars

QueryUpdate(id, updateData) ==
    /\ calls - Len(created) < MaxQueryCalls - 1
    /\ CallUpdateTask(id, updateData)
    /\ UNCHANGED <<now, res>>
    /\ UNCHANGED client
    /\ UNCHANGED rateVars

QueryDelete(id) ==
    /\ calls - Len(created) < MaxQueryCalls - 1
    /\ CallDeleteTask(id)
    /\ UNCHANGED <<now, res>>
    /\ UNCHANGED client
    /\ UNCHANGED rateVars

QueryGet(id) ==
    /\ calls - Len(created) < MaxQueryCalls - 1
    /\ CallGetTaskById(id)
    /\ UNCHANGED <<now, res>>
    /\ UNCHANGED client
    /\ UNCHANGED rateVars

Query(options) ==
    /\ calls - Len(created) = MaxQueryCalls - 1
    /\ CallGetAllTasks(options)
    /\ UNCHANGED <<now, res>>
    /\ UNCHANGED client
    /\ UNCHANGED rateVars

NextQuery ==
    \/ \E d \in QueryTaskDatas : QueryCreate(d)
    \/ \E id \in QueryIds, d \in QueryUpdateDatas : QueryUpdate(id, d)
    \/ \E id \in QueryIds : QueryDelete(id)
    \/ \E id \in QueryIds : QueryGet(id)
    \/ \E o \in QueryOptions : Query(o)

SpecQuery == Init /\ [][NextQuery]_vars

----------------------------------------------------------------------------
(* Claims about the rate limiter, checked under SpecRateLimit *)

\* C1: with W = 1000 ms and L = 3 and a key never seen before, the first 3
\* checks within W are admitted with remaining 2, 1, 0, a 4th check within
\* the window is rejected with retryAfter > 0, and a 5th check made after W
\* has elapsed since the first is admitted with a fresh window (count 1).
C1_FiveChecks ==
    ( /\ windowMs("rateLimiter") = 1000
      /\ max("rateLimiter") = 3
      /\ Len(log) >= 5
      /\ \A i \in 1..5 : log[i].lim = "rateLimiter" /\ log[i].key = log[1].key
      /\ log[4].t <= log[1].t + 1000
      /\ log[5].t > log[1].t + 1000 )
    => ( /\ \A i \in 1..3 : log[i].admitted /\ log[i].remaining = 3 - i
         /\ ~log[4].admitted
         /\ log[4].retryAfter > 0
         /\ log[5].admitted
         /\ log[5].count = 1 )

\* C2: 2*L checks of one key, absent at first, all inside one window and in
\* any order of the handlers: exactly L are admitted and L rejected, and no
\* two of them saw the same count before their increment.
C2_ExactlyLAdmitted ==
    \A l \in Limiters :
        ( /\ Len(log) >= 2 * max(l)
          /\ \A i \in 1..(2 * max(l)) :
                /\ log[i].lim = l
                /\ log[i].key = log[1].key
                /\ log[i].t <= log[1].reset )
        => ( /\ Cardinality({i \in 1..(2 * max(l)) : log[i].admitted}) = max(l)
             /\ Cardinality({i \in 1..(2 * max(l)) : ~log[i].admitted}) = max(l)
             /\ \A i, j \in 1..(2 * max(l)) :
                    i # j => log[i].count - 1 # log[j].count - 1 )

C2_Witness ==
    /\ Len(log) = 2 * max("rateLimiter")
    /\ \A i \in 1..Len(log) :
          log[i].lim = "rateLimiter" /\ log[i].t <= log[1].reset
    /\ ~log[Len(log)].admitted

\* C3: limiter instances created without an explicit store are independent:
\* what one instance reports for a client (count, remaining, window end,
\* admission) is not changed by checks made through another instance.  Two
\* successive checks of one instance in one window then differ by one count.
C3_Independent ==
    \A l \in Limiters : \A i, j \in 1..Len(log) :
        ( /\ i < j
          /\ log[i].lim = l /\ log[j].lim = l
          /\ log[i].key = log[j].key
          /\ \A m \in (i+1)..(j-1) : log[m].lim # l
          /\ log[j].t <= log[i].reset )
        => ( /\ log[j].count = log[i].count + 1
             /\ log[j].reset = log[i].reset )

\* C4: for every key and limiter, the checks admitted between the start of
\* a window (the check that stored count 1) and its end never exceed L,
\* whatever the checks and sweeps.
C4_AdmittedWithinLimit ==
    \A l \in Limiters : \A i \in 1..Len(log) :
        log[i].count = 1 =>
            Cardinality({j \in i..Len(log) :
                            /\ log[j].lim = l
                            /\ log[j].key = log[i].key
                            /\ log[j].admitted
                            /\ log[j].t <= log[i].reset}) <= max(l)

C4_Witness ==
    /\ Len(log) >= 5
    /\ \A i \in 1..5 : log[i].lim = "rateLimiter"
    /\ ~log[4].admitted
    /\ log[5].count = 1
    /\ log[5].t = log[1].reset + 1
    /\ store = <<>>

----------------------------------------------------------------------------
(* Claims about the task store, checked under SpecStore *)

\* C6: task ids are unique over the whole history of the store: no two
\* tasks ever returned by createTask, for any argument, carry the same id.
C6_UniqueIds ==
    \A i, j \in 1..Len(created) :
        i # j => created[i].id # created[j].id

\* C7: create/get round trip: getTaskById(t.id) returns the task t that
\* createTask returned, for any argument; equivalently every entry of the
\* map is stored under the id of its task.
C7_CreateGetRoundTrip ==
    /\ \A i \in 1..Len(tasks) : tasks[i].val.id = tasks[i].key
    /\ ret.op = "createTask" => getTaskById(ret.result.id) = ret.result

\* C8: updateTask never changes the id or the createdAt of a task, for any
\* partial, and the updatedAt after the update is not before the one before.
C8_UpdatePreserves ==
    [][ ( /\ calls' = calls + 1
          /\ ret'.op = "updateTask"
          /\ ret'.result # Null )
        => LET before == TasksGet(tasks, ret'.id)
               after == TasksGet(tasks', ret'.id)
           IN  /\ after = ret'.result
               /\ after.id = before.id
               /\ after.createdAt = before.createdAt
               /\ after.updatedAt.iso >= before.updatedAt.iso ]_vars

\* C10: once deleteTask(id) has succeeded, getTaskById(id), updateTask(id, ..)
\* and deleteTask(id) yield null in every later state of the store.
C10_DeletedStaysGone ==
    \A id \in deleted :
        /\ getTaskById(id) = Null
        /\ \A d \in UpdateDatas : updateTask(id, d).result = Null
        /\ deleteTask(id).result = Null
        /\ ~TasksHas(tasks, id)

C10_Witness ==
    /\ Uuid(Len(sampleTasks) + 1) \in deleted
    /\ Len(created) = 2
    /\ ret.op = "getTaskById"
    /\ ret.id = Uuid(Len(sampleTasks) + 1)
    /\ ret.result = Null

----------------------------------------------------------------------------
(* Claims about the request pipeline, checked under SpecApi *)

C9_NotFoundLeavesStore ==
    [][ ( /\ calls' = calls + 1
          /\ ret'.op \in {"updateTask", "deleteTask"}
          /\ ~TasksHas(tasks, ret'.id) )
        => ( /\ ret'.result = Null
             /\ res'.statusCode = 404
             /\ tasks' = tasks
             /\ UNCHANGED <<uuids, created, deleted>> ) ]_vars

C9_Witness ==
    /\ res.statusCode = 404
    /\ ret.op = "updateTask"
    /\ ret.result = Null
    /\ Len(created) >= 1
    /\ Len(tasks) = Len(sampleTasks) + Len(created)

----------------------------------------------------------------------------
(* Claims about queries, checked under SpecQuery *)

\* C11: store operations never fail on well-formed input: whatever tasks
\* validated creates and updates have stored (tasks without description,
\* dueDate, tags or assignee included), getAllTasks with validated options
\* returns a result and does not raise.
C11_QueryNeverRaises ==
    ret.op = "getAllTasks" => ret.result # Threw

\* C12: pagination is exhaustive and non-overlapping: for the store as it
\* is and the filter, sort and limit of a query, the items of pages
\* 1..totalPages, one after the other, are the whole filtered and sorted
\* sequence, each task once and in the same order, and the pages after
\* totalPages are empty.
C12_PagesExhaustive ==
    (ret.op = "getAllTasks" /\ ret.result # Threw) =>
        LET n == ret.result.pagination.totalPages
            PageData(p) == getAllTasks(Spread(ret.options, [page |-> p])).data
            Pages[p \in 0..n] ==
                IF p = 0 THEN <<>> ELSE Pages[p - 1] \o PageData(p)
            all == Pages[n]
            filtered == Filtered(ret.options).tasksArray
        IN  /\ all = Sorted(ret.options)
            /\ Len(all) = ret.result.pagination.total
            /\ \A i, j \in 1..Len(all) : i # j => all[i] # all[j]
            /\ \A i \in 1..Len(filtered) :
                  \E j \in 1..Len(all) : all[j] = filtered[i]
            /\ PageData(n + 1) = <<>>

C12_Witness ==
    /\ ret.op = "getAllTasks"
    /\ ret.result # Threw
    /\ ret.result.pagination.page = 3
    /\ ret.result.pagination.totalPages >= 4
    /\ ret.result.pagination.hasNextPage
    /\ Len(ret.result.data) = 2

\* C13: sort stability: two tasks of a query result whose values of the
\* requested sort field are equal appear in the order in which they were
\* inserted into the store, for ascending and descending order alike and
\* also after an update of either.
C13_SortStable ==
    (ret.op = "getAllTasks" /\ ret.result # Threw) =>
        LET data == ret.result.data
            sortBy == Option(ret.options, "sortBy", "createdAt")
            Inserted(task) ==
                CHOOSE i \in 1..Len(tasks) : tasks[i].val = task
        IN  \A i, j \in 1..Len(data) :
                ( /\ i < j
                  /\ sortBy \in DOMAIN data[i]
                  /\ sortBy \in DOMAIN data[j]
                  /\ data[i][sortBy] = data[j][sortBy] )
                => Inserted(data[i]) < Inserted(data[j])

----------------------------------------------------------------------------
(* Claims about statistics *)

\* C14: after any sequence of create, update and delete requests that
\* passed validation, getStatistics() reports byStatus.pending +
\* byStatus['in-progress'] + byStatus.completed + byStatus.cancelled = total
\* and active = total - completed - cancelled.
C14_StatusCountsAddUp ==
    LET stats == getStatistics IN
    /\ stats.byStatus.pending + stats.byStatus.inProgress
          + stats.byStatus.completed + stats.byStatus.cancelled = stats.total
    /\ stats.active = stats.total - stats.completed - stats.byStatus.cancelled
    /\ stats.completed = stats.byStatus.completed
    /\ stats.total = Len(tasks)

C14_Witness ==
    /\ ret.op = "updateTask"
    /\ res.statusCode = 200
    /\ Len(created) = 2
    /\ getStatistics.total = Len(sampleTasks) + 2
    /\ getStatistics.byStatus.completed = 2
    /\ getStatistics.byStatus.pending = 3

\* C15: on the store as constructed at process start, after createTask of
\* {title A, status pending, priority low} and of {title B, status
\* completed, priority high} and nothing else, getStatistics() yields
\* total = 2, completed = 1, active = 1 and completionRate = 50.0.
C15_TwoTaskStatistics ==
    ( /\ ret.op = "getStatistics"
      /\ calls = 3
      /\ Len(created) = 2
      /\ created[1].title = <<"A">> /\ created[1].status = S_pending
      /\ created[1].priority = S_low
      /\ created[2].title = <<"B">> /\ created[2].status = S_completed
      /\ created[2].priority = S_high
      /\ tasks = InitialTasks
                  \o <<[key |-> Uuid(Len(sampleTasks) + 1), val |-> created[1]],
                       [key |-> Uuid(Len(sampleTasks) + 2), val |-> created[2]]>> )
    => ( /\ ret.result.total = 2
         /\ ret.result.completed = 1
         /\ ret.result.active = 1
         /\ ret.result.completionRate = 500 )

----------------------------------------------------------------------------
(* Claims about ownership and concurrent writes *)

\* C16: the store exclusively owns its tasks: when a caller changes a field
\* of a task value it received from createTask, getTaskById, updateTask or
\* deleteTask, nothing that getTaskById, getAllTasks or getStatistics
\* return afterwards changes: the stored tasks stay as they were.
C16_CallerCannotChangeStore ==
    [][ (calls' = calls /\ ret' # ret) => tasks' = tasks ]_vars

\* C17: writes to one task are serialised: an update keeps every field the
\* task had that its partial does not name (so of two updates with
\* partials on different fields both changes are stored), stores what its
\* partial names, never inserts a task for an id that is not in the store
\* (deleted before), and every state a read can see holds whole tasks only.
C17_WritesSerialised ==
    /\ [](\A i \in 1..Len(tasks) :
            {"id", "title", "status", "priority", "createdAt", "updatedAt"}
                \subseteq DOMAIN tasks[i].val)
    /\ [][ (calls' = calls + 1 /\ ret'.op = "updateTask") =>
            IF TasksHas(tasks, ret'.id)
            THEN LET before == TasksGet(tasks, ret'.id)
                     after == TasksGet(tasks', ret'.id)
                     stamped == {"id", "createdAt", "updatedAt"}
                 IN  /\ after = ret'.result
                     /\ Len(tasks') = Len(tasks)
                     /\ \A k \in DOMAIN ret'.data \ stamped :
                           after[k] = ret'.data[k]
                     /\ \A k \in DOMAIN before
                                  \ (DOMAIN ret'.data \cup stamped) :
                           k \in DOMAIN after /\ after[k] = before[k]
            ELSE tasks' = tasks /\ ret'.result = Null ]_vars

C17_Witness ==
    /\ ret.op = "updateTask"
    /\ ret.result # Null
    /\ res.statusCode = 200
    /\ ret.result.status = S_completed
    /\ ret.result.title = <<"C">>
    /\ deleted = {}

----------------------------------------------------------------------------
(* Claims about the skip predicate (SpecSkip) and about windows            *)
(* (SpecRateLimit)                                                         *)

\* C18: a request that matches a limiter's skip predicate is always passed
\* on and is exempt from all counting: no counter of any key is created,
\* incremented or reset by it, and no quota header is computed from it.
C18_SkippedNotCounted ==
    [][ LET e == log'[Len(log')] IN
        (Len(log') = Len(log) + 1 /\ skip(e.lim, e.req))
        => ( /\ e.admitted
             /\ store' = store
             /\ resetTime' = resetTime
             /\ DOMAIN e \cap {"count", "limit", "remaining", "reset",
                                "retryAfter", "statusCode"} = {} ) ]_vars

C18_Witness ==
    /\ Len(log) = 3
    /\ ~skip(log[1].lim, log[1].req)
    /\ skip(log[2].lim, log[2].req)
    /\ ~skip(log[3].lim, log[3].req)
    /\ log[3].count = 2
    /\ log[3].t = log[1].t

\* C19: the first check of a key that has no counter (never seen, or
\* removed by the sweep) through a limiter with window W creates a counter
\* with count 1 whose window ends at now + W, W being that limiter's own
\* windowMs.
C19_FirstWindowIsW ==
    [][ LET e == log'[Len(log')] IN
        (Len(log') = Len(log) + 1 /\ e.key \notin DOMAIN store)
        => ( /\ store'[e.key] = [count |-> 1,
                                  resetTime |-> now + windowMs(e.lim)]
             /\ e.reset = now + windowMs(e.lim) ) ]_vars

\* C20: a check of a key whose counter has now > resetTime resets the
\* counter to {count: 1, resetTime: now + windowMs} in the step of its own
\* increment, counts as the first of the new window and is admitted; a
\* check with now <= resetTime never resets: it adds one to the count and
\* keeps the window.
C20_ResetWithIncrement ==
    [][ LET e == log'[Len(log')] IN
        (Len(log') = Len(log) + 1 /\ e.key \in DOMAIN store)
        => IF now > store[e.key].resetTime
           THEN /\ store'[e.key] = [count |-> 1,
                                     resetTime |-> now + windowMs(e.lim)]
                /\ resetTime'[e.key] = now + windowMs(e.lim)
                /\ e.count = 1
                /\ e.admitted
           ELSE /\ store'[e.key].resetTime = store[e.key].resetTime
                /\ store'[e.key].count = store[e.key].count + 1 ]_vars

C20_Witness ==
    \E i \in 2..Len(log) :
        /\ log[i].lim = "rateLimiter"
        /\ log[i].key = log[i - 1].key
        /\ log[i].t > log[i - 1].reset
        /\ log[i].count = 1
        /\ log[i].reset = log[i].t + windowMs("rateLimiter")
        /\ log[i].admitted
        /\ i < Len(log)
        /\ log[i + 1].count = 2
        /\ log[i + 1].reset = log[i].reset

----------------------------------------------------------------------------
(* Claims about one check and about the counter of a window               *)
(* (SpecRateLimit)                                                         *)

\* C21: for every non-skipped check, with count the counter value after the
\* increment: the check is admitted if and only if count <= L, remaining is
\* max(0, L - count) and never negative, and limit = L, remaining and
\* reset = the end of the stored window are attached to the response
\* whether it is admitted or rejected.
C21_AdmittedIffWithinLimit ==
    [][ LET e == log'[Len(log')] IN
        (Len(log') = Len(log) + 1 /\ ~skip(e.lim, e.req))
        => ( /\ {"limit", "remaining", "reset"} \subseteq DOMAIN e
             /\ e.count = store'[e.key].count
             /\ e.admitted <=> e.count <= max(e.lim)
             /\ e.remaining = IF e.count >= max(e.lim) THEN 0
                               ELSE max(e.lim) - e.count
             /\ e.remaining >= 0
             /\ e.limit = max(e.lim)
             /\ e.reset = store'[e.key].resetTime ) ]_vars

C21_Witness ==
    \E i, j \in 1..Len(log) :
        /\ log[i].lim = "rateLimiter" /\ log[j].lim = "rateLimiter"
        /\ log[i].admitted
        /\ log[i].count = max("rateLimiter")
        /\ log[i].remaining = 0
        /\ ~log[j].admitted
        /\ log[j].count = max("rateLimiter") + 2
        /\ log[j].remaining = 0
        /\ log[j].reset = log[i].reset

\* C22: within one window the count of a key is the number of non-skipped
\* checks made for that key since the window began, admitted and rejected
\* alike: every check raises the count by exactly 1, a rejected one too.
C22_CountIsNumberOfChecks ==
    /\ [](\A key \in DOMAIN store :
            store[key].count =
                Cardinality({j \in 1..Len(log) :
                                /\ log[j].key = key
                                /\ log[j].reset = store[key].resetTime}))
    /\ [][ LET e == log'[Len(log')] IN
           ( /\ Len(log') = Len(log) + 1
             /\ e.key \in DOMAIN store
             /\ now <= store[e.key].resetTime )
           => ( /\ store'[e.key].count = store[e.key].count + 1
                /\ e.count = store[e.key].count + 1 ) ]_vars

C22_Witness ==
    \E key \in DOMAIN store :
        /\ store[key].count = max("rateLimiter") + 2
        /\ Len(log) = max("rateLimiter") + 2
        /\ \A i \in 1..Len(log) : log[i].lim = "rateLimiter"
        /\ ~log[Len(log) - 1].admitted
        /\ ~log[Len(log)].admitted

\* C23: every rejected check carries Retry-After =
\* ceil((windowResetAt - now) / 1000) seconds, and the value is strictly
\* positive for every rejection, also for one made at the instant
\* now = windowResetAt.
C23_RetryAfterPositive ==
    \A i \in 1..Len(log) :
        ~log[i].admitted
        => ( /\ log[i].retryAfter = Ceil(log[i].reset - log[i].t, 1000)
             /\ log[i].retryAfter > 0 )

\* C24: rejections never postpone the end of a window: the end of a key's
\* window changes only with a check that arrives after it, and the first
\* check of a key made after the end of its window is admitted, however
\* many rejected checks came before.
C24_RejectionsKeepWindow ==
    \A i, j \in 1..Len(log) :
        ( /\ i < j
          /\ log[i].key = log[j].key
          /\ \A m \in (i + 1)..(j - 1) : log[m].key # log[i].key )
        => ( /\ log[j].reset # log[i].reset => log[j].t > log[i].reset
             /\ log[j].t > log[i].reset
                   => log[j].admitted /\ log[j].count = 1 )

C24_Witness ==
    \E i \in 1..Len(log) :
        /\ i + 2 <= Len(log)
        /\ ~log[i].admitted
        /\ ~log[i + 1].admitted
        /\ log[i + 1].reset = log[i].reset
        /\ log[i + 2].t > log[i].reset
        /\ log[i + 2].admitted
        /\ log[i + 2].lim = "rateLimiter"

----------------------------------------------------------------------------
(* Claims about the sweep (SpecSweep) *)

\* C25: a sweep removes exactly the keys whose window has passed
\* (now > windowResetAt): after it no such key is left in either map, and
\* every other key keeps its count and the end of its window.
C25_SweepRemovesExpired ==
    [][ ( /\ log' = log
          /\ now' = now
          /\ <<store, resetTime>>' # <<store, resetTime>> )
        => LET gone == {k \in DOMAIN store : now > store[k].resetTime} IN
           /\ DOMAIN store' = DOMAIN store \ gone
           /\ DOMAIN resetTime' = DOMAIN resetTime \ gone
           /\ \A k \in DOMAIN store' :
                 /\ store'[k] = store[k]
                 /\ resetTime'[k] = resetTime[k]
                 /\ ~(now > store'[k].resetTime) ]_vars

C25_Witness ==
    \E a, b \in SweepIps :
        /\ a # b
        /\ DOMAIN store = {b}
        /\ DOMAIN resetTime = {b}
        /\ now <= store[b].resetTime
        /\ store[b].count = 2
        /\ \E i \in 1..Len(log) : log[i].key = a /\ now > log[i].reset
        /\ \A i \in 1..Len(log) : log[i].key = a => now > log[i].reset

\* C26: the sweep does not race destructively with checks of the same key:
\* under every interleaving of sweeps and checks no increment is lost, a
\* key removed by the sweep and created again by a following check is
\* stored with count 1, and in every reachable state the count map and the
\* reset-time map hold the same keys with equal reset times.
C26_SweepAndChecks ==
    /\ []( /\ DOMAIN store = DOMAIN resetTime
           /\ \A k \in DOMAIN store :
                 /\ resetTime[k] = store[k].resetTime
                 /\ Cardinality({j \in 1..Len(log) :
                                    /\ log[j].key = k
                                    /\ log[j].reset = store[k].resetTime})
                       = store[k].count )
    /\ [][ LET e == log'[Len(log')] IN
           (Len(log') = Len(log) + 1 /\ e.key \notin DOMAIN store)
           => ( /\ store'[e.key].count = 1
                /\ e.count = 1
                /\ e.admitted ) ]_vars

C26_Witness ==
    \E i, j \in 1..Len(log) :
        /\ i < j
        /\ log[i].key = log[j].key
        /\ log[j].t > log[i].reset
        /\ log[j].count = 1
        /\ log[j].reset = log[j].t + DefaultResetMs
        /\ log[j].key \in DOMAIN store
        /\ \E k \in DOMAIN store : k # log[j].key /\ store[k].count >= 2

----------------------------------------------------------------------------
(* Claims about updates and queries of the task store                     *)
(* (SpecStore, SpecQuery)                                                  *)

\* C27: updateTask(id, partial) is a shallow merge: every field that is
\* absent from partial keeps its previous value (updatedAt, which every
\* update refreshes, aside), tags present in partial replace the previous
\* tags as a whole, and every other task of the store is left unchanged.
C27_ShallowMerge ==
    [][ ( /\ calls' = calls + 1
          /\ ret'.op = "updateTask"
          /\ ret'.result # Null )
        => LET before == TasksGet(tasks, ret'.id)
               after == TasksGet(tasks', ret'.id)
               partial == ret'.data
           IN  /\ \A f \in DOMAIN before \ (DOMAIN partial \cup {"updatedAt"}) :
                     f \in DOMAIN after /\ after[f] = before[f]
               /\ "tags" \in DOMAIN partial => after.tags = partial.tags
               /\ Len(tasks') = Len(tasks)
               /\ \A i \in 1..Len(tasks) :
                     tasks[i].key # ret'.id => tasks'[i] = tasks[i] ]_vars

\* C28: a query result is ordered by the requested sort field in the
\* requested direction, strings compared without regard to case and date
\* fields as timestamps: for every two items at positions i < j the sort
\* key of item i is not strictly after that of item j (ascending; the
\* reverse for descending), also when the sort is by dueDate and some
\* tasks have no dueDate.
C28_ResultOrdered ==
    (ret.op = "getAllTasks" /\ ret.result # Threw)
    => LET data == ret.result.data
           sortBy == Option(ret.options, "sortBy", "createdAt")
           asc == Option(ret.options, "sortOrder", S_desc) = S_asc
           After(a, b) ==
               IF sortBy \in DateFields
               THEN a[sortBy].iso > b[sortBy].iso
               ELSE StringLess(toLowerCase(b[sortBy]), toLowerCase(a[sortBy]))
       IN  \A i, j \in 1..Len(data) :
               ( /\ i < j
                 /\ sortBy \in DOMAIN data[i]
                 /\ sortBy \in DOMAIN data[j] )
               => IF asc THEN ~After(data[i], data[j])
                         ELSE ~After(data[j], data[i])

\* C29: filters combine as a conjunction: the filtered set of a query is
\* exactly the set of stored tasks that satisfy every supplied filter;
\* status and priority match exactly, assignee is a substring match without
\* regard to case, search matches when the text is such a substring of the
\* title or of the description or of any tag, and a date bound keeps only
\* the tasks that have a dueDate with dueDateFrom <= dueDate <= dueDateTo.
C29_FiltersConjunction ==
    ret.op = "getAllTasks"
    => LET options == ret.options
           on(k) == k \in DOMAIN options
           In(text, field) == includes(toLowerCase(field), toLowerCase(text))
           Satisfies(task) ==
               /\ on("status") => task.status = options.status
               /\ on("priority") => task.priority = options.priority
               /\ on("assignee") =>
                     /\ "assignee" \in DOMAIN task
                     /\ In(options.assignee, task.assignee)
               /\ on("search") =>
                     \/ In(options.search, task.title)
                     \/ /\ "description" \in DOMAIN task
                        /\ In(options.search, task.description)
                     \/ /\ "tags" \in DOMAIN task
                        /\ \E n \in 1..Len(task.tags) :
                              In(options.search, task.tags[n])
               /\ on("dueDateFrom") =>
                     /\ "dueDate" \in DOMAIN task
                     /\ options.dueDateFrom.iso <= task.dueDate.iso
               /\ on("dueDateTo") =>
                     /\ "dueDate" \in DOMAIN task
                     /\ task.dueDate.iso <= options.dueDateTo.iso
           expected == {i \in 1..Len(tasks) : Satisfies(tasks[i].val)}
           all == getAllTasks(Spread(options, [page |-> 1, limit |-> MaxLimit]))
       IN  /\ ret.result # Threw
           /\ ret.result.pagination.total = Cardinality(expected)
           /\ {all.data[n] : n \in 1..Len(all.data)}
                 = {tasks[i].val : i \in expected}

----------------------------------------------------------------------------
(* APIClient.request: one call, its fetch attempts and the waits between   *)
(* them.  A fetch settles with a response, with a network error, or, when *)
(* the timer of the attempt aborts it, with an AbortError.                 *)

HTTPError(status) == [name |-> "HTTPError", status |-> status]
TimeoutError(timeout) == [name |-> "TimeoutError", timeout |-> timeout]

\* what one fetch can settle with
FetchOutcomes ==
    [kind : {"response"}, status : {200, 404, 500, 503}]
    \cup [kind : {"reject"}, name : {"TypeError", "AbortError"}]

\* the options of the calls: the defaults, and retries and delays set by
\* the caller
ClientOptions ==
    [timeout : {DefaultTimeout},
     retries : {-1, 0, 1, DefaultRetries},
     retryDelay : {DefaultRetryDelay, 250}]

\* response.ok
ok(response) == response.status >= 200 /\ response.status <= 299

\* what the try block throws for a settled fetch that is not an ok response
Thrown(outcome) ==
    IF outcome.kind = "response"
    THEN HTTPError(outcome.status)
    ELSE [name |-> outcome.name]

\* a plausible slip: client errors are tried again like server errors
Caught_RetriesClientErrors(error, timeout) ==
    IF error.name = "AbortError"
    THEN [rethrow |-> TRUE, error |-> TimeoutError(timeout)]
    ELSE [rethrow |-> FALSE, error |-> error]

\* the catch block, up to its decision to throw at once
Caught(error, timeout) ==
    IF error.name = "AbortError"
    THEN [rethrow |-> TRUE, error |-> TimeoutError(timeout)]
    ELSE IF error.name = "HTTPError" /\ error.status < 500
    THEN [rethrow |-> TRUE, error |-> error]
    ELSE [rethrow |-> FALSE, error |-> error]

\* request(url, options): up to the first fetch, or to throw lastError when
\* the loop makes no attempt
ClientRequest(options) ==
    /\ client.pc = "idle"
    /\ LET maxRetries == IF options.retries = 0 THEN 0 ELSE options.retries
       IN  client' =
             IF 0 <= maxRetries
             THEN [client EXCEPT !.pc = "fetch", !.options = options,
                                 !.maxRetries = maxRetries,
                                 !.started = now]
             ELSE [client EXCEPT !.pc = "threw", !.options = options,
                                 !.maxRetries = maxRetries]
    /\ UNCHANGED <<now, res>>
    /\ UNCHANGED rateVars
    /\ UNCHANGED taskVars

\* the awaited fetch settles: the rest of the try block and the catch block
ClientFetchSettles(outcome) ==
    /\ client.pc = "fetch"
    /\ LET aborted == outcome.kind = "reject" /\ outcome.name = "AbortError"
           settled == IF aborted THEN client.started + client.options.timeout
                      ELSE now
           seen == [client EXCEPT
                      !.fetches = Append(@, [outcome |-> outcome,
                                             started |-> client.started,
                                             settled |-> settled])]
           error == Thrown(outcome)
           caught == Caught(error, client.options.timeout)
       IN  /\ now' = settled
           /\ client' =
                 IF outcome.kind = "response" /\ ok(outcome)
                 THEN [seen EXCEPT !.pc = "returned", !.result = outcome]
                 ELSE IF caught.rethrow
                 THEN [seen EXCEPT !.pc = "threw", !.lastError = error,
                                   !.result = caught.error]
                 ELSE IF client.attempt < client.maxRetries
                 THEN [seen EXCEPT
                         !.pc = "delay", !.lastError = error,
                         !.wake = settled + client.options.retryDelay
                                            * 2 ^ client.attempt]
                 ELSE [seen EXCEPT !.pc = "threw", !.lastError = error,
                                   !.attempt = @ + 1, !.result = error]
    /\ UNCHANGED res
    /\ UNCHANGED rateVars
    /\ UNCHANGED taskVars

\* the timer of delay(ms) fires: the next turn of the loop
ClientDelayEnds ==
    /\ client.pc = "delay"
    /\ now' = client.wake
    /\ client' = [client EXCEPT !.pc = "fetch", !.attempt = @ + 1,
                                !.started = client.wake]
    /\ UNCHANGED res
    /\ UNCHANGED rateVars
    /\ UNCHANGED taskVars

\* the steps the event loop takes by itself once the call is made
ClientStep ==
    \/ \E outcome \in FetchOutcomes : ClientFetchSettles(outcome)
    \/ ClientDelayEnds

NextClient ==
    \/ \E options \in ClientOptions : ClientRequest(options)
    \/ \E outcome \in FetchOutcomes : ClientFetchSettles(outcome)
    \/ ClientDelayEnds

\* every fetch settles, by the abort of its timer at the latest, and every
\* timer fires
SpecClient == Init /\ [][NextClient]_vars /\ WF_vars(ClientStep)

----------------------------------------------------------------------------
(* Claim about APIClient.request (SpecClient) *)

\* C30: request makes at most retries + 1 fetch attempts and always ends
\* by returning a response or throwing: a further attempt starts only after
\* a network error or an HTTP status >= 500, retryDelay * 2^attempt after
\* it; no attempt follows an HTTP status below 500 or a timeout abort; and
\* when all attempts failed the error of the last attempt is thrown.
C30_RequestRetries ==
    /\ []( client.pc # "idle" =>
           LET fetches == client.fetches
               n == Len(fetches)
               Failed(f) ==
                   \/ f.outcome.kind = "reject" /\ f.outcome.name = "TypeError"
                   \/ f.outcome.kind = "response" /\ f.outcome.status >= 500
           IN  /\ n <= client.options.retries + 1
               /\ \A i \in 1..(n - 1) :
                     /\ Failed(fetches[i])
                     /\ fetches[i + 1].started - fetches[i].settled
                           = client.options.retryDelay * 2 ^ (i - 1)
               /\ client.pc \in {"fetch", "delay"} =>
                     \A i \in 1..n : Failed(fetches[i])
               /\ client.pc = "returned" =>
                     /\ fetches[n].outcome.kind = "response"
                     /\ fetches[n].outcome.status \in 200..299
                     /\ client.result = fetches[n].outcome
               /\ ( /\ client.pc = "threw"
                    /\ n >= 1
                    /\ n = client.options.retries + 1
                    /\ Failed(fetches[n]) ) =>
                     client.result =
                        IF fetches[n].outcome.kind = "response"
                        THEN HTTPError(fetches[n].outcome.status)
                        ELSE [name |-> "TypeError"] )
    /\ (client.pc # "idle") ~> (client.pc \in {"returned", "threw"})

C30_Witness ==
    /\ client.pc = "threw"
    /\ client.options.retries = DefaultRetries
    /\ client.options.retryDelay = DefaultRetryDelay
    /\ Len(client.fetches) = DefaultRetries + 1
    /\ client.fetches[1].outcome.kind = "reject"
    /\ client.fetches[4].outcome.kind = "response"
    /\ client.result = HTTPError(503)
    /\ now = StartTime + 7000

====
